---- MODULE Spec2Model ----
(***************************************************************************)
(* LinkMusicBot: a Telegram bot that turns a link to a song or an album on *)
(* one music service into links on the others.                             *)
(*                                                                         *)
(* Two front ends share the same logic: the webhook (app.py + handler.py)  *)
(* and the polling bot (bot.py).  Every Python call is modelled as an      *)
(* operator returning a record                                             *)
(*     [raised |-> exception name or NoExc, ret |-> value, calls |-> log]  *)
(* where calls is the sequence of adapter/backend calls made, in order.    *)
(***************************************************************************)
EXTENDS Integers, Sequences, FiniteSets, TLC

VARIABLES
    hasSearch,       \* the adapter classes that define a search method
    SEARCH_SERVICE,  \* handler.py:27-32 / bot.py:18-23, chosen at start-up
    pc,              \* "idle" | "done": one request is handled at a time
    entry,           \* "none" | "webhook" | "polling": the front end used
    update,          \* the update being handled
    env,             \* what the music services answered during this request
    outcome,         \* [raised, ret] of the handler
    sent,            \* API calls the polling bot made (bot.py)
    calls            \* adapter and backend calls made, in order

vars == <<hasSearch, SEARCH_SERVICE, pc, entry, update, env, outcome, sent, calls>>

\* Bounds of the model.
MaxHits == 1
MaxEntities == 2

----------------------------------------------------------------------------
\* Python values

None == [tag |-> "None"]
NoExc == "no exception"

\* Bind(v, Body): Body applied to the value v (a local variable)
Bind(v, Body(_)) == Body(v)

Ret(v, log) == [raised |-> NoExc, ret |-> v, calls |-> log]
Raise(e, log) == [raised |-> e, ret |-> None, calls |-> log]

\* str.lower() on the host names the model uses
Lower(s) ==
    CASE s = "iTunes.Apple.com" -> "itunes.apple.com"
      [] s = "YOUTU.BE" -> "youtu.be"
      [] s = "/START" -> "/start"
      [] s = "/Start" -> "/start"
      [] OTHER -> s

\* html.unescape on the strings the model uses
unescape(s) ==
    CASE s = "Artist Y &amp; Z" -> "Artist Y & Z"
      [] s = "Song X &#39;95" -> "Song X '95"
      [] OTHER -> s

----------------------------------------------------------------------------
\* converter.py: the metadata model

Song(title, artist, album) ==
    [tag |-> "Song", title |-> title, artist |-> artist, album |-> album]

Album(title, artist) ==
    [tag |-> "Album", title |-> title, artist |-> artist]

\* The literal between the two fields of Song.__str__ (converter.py:42): the
\* source holds the three characters U+00E2 U+20AC U+201D between two spaces.
SongSeparator == " <U+00E2><U+20AC><U+201D> "

AlbumSeparator == " by "

\* str(item): the pieces of the formatted string, in order
Str(item) ==
    IF item.tag = "Song"
    THEN <<item.artist, SongSeparator, item.title>>
    ELSE <<item.title, AlbumSeparator, item.artist>>

----------------------------------------------------------------------------
\* converter.py: the service adapters.  A link is the text after urlparse:
\*   [malformed, netloc, path, params, track]
\* malformed: urlparse raises ValueError (an unbalanced "[" in the host);
\* params: the names in the query string; track: "track" occurs in the text.

AppleMusic_can_handle_link(link) ==
    IF link.malformed THEN Raise("ValueError", <<>>)
    ELSE Ret(Lower(link.netloc) = "itunes.apple.com", <<>>)

\* can_handle_link with a host of YouTube left in its test
Spotify_can_handle_link_copied(link) ==
    IF link.malformed THEN Raise("ValueError", <<>>)
    ELSE Ret(Lower(link.netloc) \in {"open.spotify.com", "youtu.be"}, <<>>)

Spotify_can_handle_link(link) ==
    IF link.malformed THEN Raise("ValueError", <<>>)
    ELSE Ret(Lower(link.netloc) = "open.spotify.com", <<>>)

YouTube_can_handle_link(link) ==
    IF link.malformed THEN Raise("ValueError", <<>>)
    ELSE Ret(Lower(link.netloc) \in
                {"youtube.com", "www.youtube.com", "m.youtube.com", "youtu.be"},
             <<>>)

can_handle_link(cls, link) ==
    LET r == CASE cls = "AppleMusic" -> AppleMusic_can_handle_link(link)
               [] cls = "YouTube" -> YouTube_can_handle_link(link)
               [] cls = "Spotify" -> Spotify_can_handle_link(link)
    IN [r EXCEPT !.calls = <<<<cls, "can_handle_link">>>>]

AppleMusic_link_is_song(link) == "i" \in link.params

Spotify_link_is_song(link) == link.track

YouTube_link_is_song(link) ==
    IF Lower(link.netloc) \in {"youtube.com", "www.youtube.com", "m.youtube.com"}
    THEN link.path = "/watch"
    ELSE TRUE

link_is_song(cls, link) ==
    CASE cls = "AppleMusic" -> AppleMusic_link_is_song(link)
      [] cls = "YouTube" -> YouTube_link_is_song(link)
      [] cls = "Spotify" -> Spotify_link_is_song(link)

\* e.extract is what the service answers to the fetch of the link:
\*   "ok": the page or API object with every field; "missing": an answer
\*   without the expected fields or items; "error": the request fails.

AppleMusic_link_to_song(link, e) ==
    LET log == <<<<"AppleMusic", "GET page">>>>
    IN CASE e.extract = "ok" ->
               Ret(Song(unescape("Song X &#39;95"), unescape("Artist Y &amp; Z"),
                        unescape("Album Z")), log)
         [] e.extract = "missing" -> Raise("AttributeError", log)
         [] OTHER -> Raise("ConnectionError", log)

AppleMusic_link_to_album(link, e) ==
    LET log == <<<<"AppleMusic", "GET page">>>>
    IN CASE e.extract = "ok" ->
               Ret(Album(unescape("Album Z"), unescape("Artist Y &amp; Z")), log)
         [] e.extract = "missing" -> Raise("AttributeError", log)
         [] OTHER -> Raise("ConnectionError", log)

Spotify_link_to_song(link, e) ==
    LET log == <<<<"Spotify", "track">>>>
    IN CASE e.extract = "ok" -> Ret(Song("Song X", "Artist Y", "Album Z"), log)
         [] e.extract = "missing" -> Raise("SpotifyException", log)
         [] OTHER -> Raise("ConnectionError", log)

Spotify_link_to_album(link, e) ==
    LET log == <<<<"Spotify", "album">>>>
    IN CASE e.extract = "ok" -> Ret(Album("Album Z", "Artist Y"), log)
         [] e.extract = "missing" -> Raise("SpotifyException", log)
         [] OTHER -> Raise("ConnectionError", log)

YouTube_link_to_song(link, e) ==
    LET log == <<<<"YouTube", "GET page">>>>
    IN CASE e.extract = "ok" -> Ret(Song("Song X", "Artist Y", "Album Z"), log)
         [] e.extract = "missing" -> Raise("ValueError", log)
         [] OTHER -> Raise("ConnectionError", log)

\* _link_to_id reads the list parameter before anything is fetched
YouTube_link_to_album(link, e) ==
    LET log == <<<<"YouTube", "GET playlists">>>>
    IN IF "list" \notin link.params THEN Raise("KeyError", <<>>)
       ELSE CASE e.extract = "ok" -> Ret(Album("Album Z", ""), log)
              [] e.extract = "missing" -> Raise("ValueError", log)
              [] OTHER -> Raise("ConnectionError", log)

link_to_song(cls, link, e) ==
    CASE cls = "AppleMusic" -> AppleMusic_link_to_song(link, e)
      [] cls = "YouTube" -> YouTube_link_to_song(link, e)
      [] cls = "Spotify" -> Spotify_link_to_song(link, e)

link_to_album(cls, link, e) ==
    CASE cls = "AppleMusic" -> AppleMusic_link_to_album(link, e)
      [] cls = "YouTube" -> YouTube_link_to_album(link, e)
      [] cls = "Spotify" -> Spotify_link_to_album(link, e)

\* e.lookup[cls] is what the service answers to the search for an item:
\*   "hit": at least one result; "zero": none; "error": the request fails.
\* e.naive is Spotify's answer to the relaxed query.

AppleMusic_song_to_link(song, e) ==
    LET log == <<<<"AppleMusic", "_search">>>>
    IN CASE e.lookup.AppleMusic = "hit" -> Ret("https://itunes.apple.com/track", log)
         [] e.lookup.AppleMusic = "zero" -> Raise("ValueError", log)
         [] OTHER -> Raise("ConnectionError", log)

AppleMusic_album_to_link(album, e) ==
    LET log == <<<<"AppleMusic", "_search">>>>
    IN CASE e.lookup.AppleMusic = "hit" -> Ret("https://itunes.apple.com/album", log)
         [] e.lookup.AppleMusic = "zero" -> Raise("ValueError", log)
         [] OTHER -> Raise("ConnectionError", log)

YouTube_song_to_link(song, e) ==
    LET log == <<<<"YouTube", "_get">>>>
    IN CASE e.lookup.YouTube = "hit" -> Ret("https://youtube.com/watch?v=id", log)
         [] e.lookup.YouTube = "zero" -> Raise("ValueError", log)
         [] OTHER -> Raise("ConnectionError", log)

YouTube_album_to_link(album, e) ==
    LET log == <<<<"YouTube", "_get">>>>
    IN CASE e.lookup.YouTube = "hit" ->
               Ret("https://www.youtube.com/playlist?list=id", log)
         [] e.lookup.YouTube = "zero" -> Raise("ValueError", log)
         [] OTHER -> Raise("ConnectionError", log)

\* self._spotify.search(query, ...): the number of results, or the error
Spotify_search(query, e) ==
    LET answer == IF query = "_format_query" THEN e.lookup.Spotify ELSE e.naive
        log == <<<<"Spotify", query>>>>
    IN CASE answer = "hit" -> Ret(1, log)
         [] answer = "zero" -> Ret(0, log)
         [] OTHER -> Raise("SpotifyException", log)

\* the relaxed query, issued after the exact one (first) found nothing
Spotify_second_search(first, url, e) ==
    Bind(Spotify_search("_naive_query", e), LAMBDA second :
        IF second.raised # NoExc
        THEN Raise(second.raised, first.calls \o second.calls)
        ELSE IF second.ret < 1
        THEN Raise("ValueError", first.calls \o second.calls)
        ELSE Ret(url, first.calls \o second.calls))

\* song_to_link that also retries when the exact query failed
Spotify_song_to_link_retry(song, e) ==
    Bind(Spotify_search("_format_query", e), LAMBDA first :
        IF first.raised # NoExc \/ first.ret < 1
        THEN Spotify_second_search(first, "https://open.spotify.com/track/id", e)
        ELSE Ret("https://open.spotify.com/track/id", first.calls))

Spotify_song_to_link(song, e) ==
    Bind(Spotify_search("_format_query", e), LAMBDA first :
        IF first.raised # NoExc THEN first
        ELSE IF first.ret < 1
        THEN Spotify_second_search(first, "https://open.spotify.com/track/id", e)
        ELSE Ret("https://open.spotify.com/track/id", first.calls))

Spotify_album_to_link(album, e) ==
    Bind(Spotify_search("_format_query", e), LAMBDA first :
        IF first.raised # NoExc THEN first
        ELSE IF first.ret < 1
        THEN Spotify_second_search(first, "https://open.spotify.com/album/id", e)
        ELSE Ret("https://open.spotify.com/album/id", first.calls))

song_to_link(cls, song, e) ==
    CASE cls = "AppleMusic" -> AppleMusic_song_to_link(song, e)
      [] cls = "YouTube" -> YouTube_song_to_link(song, e)
      [] cls = "Spotify" -> Spotify_song_to_link(song, e)

album_to_link(cls, album, e) ==
    CASE cls = "AppleMusic" -> AppleMusic_album_to_link(album, e)
      [] cls = "YouTube" -> YouTube_album_to_link(album, e)
      [] cls = "Spotify" -> Spotify_album_to_link(album, e)

service_name(cls) ==
    CASE cls = "AppleMusic" -> "Apple Music"
      [] cls = "YouTube" -> "YouTube"
      [] cls = "Spotify" -> "Spotify"

----------------------------------------------------------------------------
\* The adapter interface the front ends call on every service.  The classes
\* of converter.py do not define these four; they are modelled as the
\* specification describes them (sections 3, 4.1 and 4.2).

CoverArt == [url |-> "https://img.example/cover.jpg", width |-> 600, height |-> 600]

\* item.cover_art: an optional attribute set by the extractor
with_cover_art(item, e) ==
    LET art == IF e.cover THEN CoverArt ELSE None
    IN IF item.tag = "Song"
       THEN [tag |-> "Song", title |-> item.title, artist |-> item.artist,
             album |-> item.album, cover_art |-> art]
       ELSE [tag |-> "Album", title |-> item.title, artist |-> item.artist,
             cover_art |-> art]

\* classify the link by its shape, then call the matching extractor
link_to_object(cls, link, e) ==
    Bind(IF link_is_song(cls, link)
         THEN link_to_song(cls, link, e)
         ELSE link_to_album(cls, link, e),
         LAMBDA r :
            IF r.raised # NoExc
            THEN Raise(r.raised, <<<<cls, "link_to_object">>>> \o r.calls)
            ELSE Ret(with_cover_art(r.ret, e), <<<<cls, "link_to_object">>>> \o r.calls))

\* the reciprocal lookup: song_to_link for a Song, album_to_link for an Album
object_to_link(cls, item, e) ==
    Bind(IF item.tag = "Song"
         THEN song_to_link(cls, item, e)
         ELSE album_to_link(cls, item, e),
         LAMBDA r : [r EXCEPT !.calls = <<<<cls, "object_to_link">>>> \o r.calls])

\* the items a search-capable adapter finds for a free-text query
ItemOfKind(kind, e) ==
    with_cover_art(IF kind = "Song" THEN Song("Song X", "Artist Y", "Album Z")
                   ELSE Album("Album Z", "Artist Y"), e)

search(cls, query, e) ==
    LET log == <<<<cls, "search">>>>
    IN IF e.search.resp = "ok"
       THEN Ret([i \in 1..Len(e.search.hits) |-> ItemOfKind(e.search.hits[i], e)], log)
       ELSE Raise("ConnectionError", log)

----------------------------------------------------------------------------
\* handler.py (and the same methods of LinkMusicBot in bot.py)

MUSIC_SERVICES == <<"AppleMusic", "YouTube", "Spotify">>

NoService == "None"

\* the selection without the break: the last service with search wins
RECURSIVE first_search_service_last(_, _)
first_search_service_last(i, capable) ==
    IF i > Len(MUSIC_SERVICES) THEN NoService
    ELSE Bind(first_search_service_last(i + 1, capable), LAMBDA later :
            IF later # NoService THEN later
            ELSE IF MUSIC_SERVICES[i] \in capable THEN MUSIC_SERVICES[i]
            ELSE NoService)

\* the for/else at start-up: the first service with a search attribute
RECURSIVE first_search_service(_, _)
first_search_service(i, capable) ==
    IF i > Len(MUSIC_SERVICES) THEN NoService
    ELSE IF MUSIC_SERVICES[i] \in capable THEN MUSIC_SERVICES[i]
    ELSE first_search_service(i + 1, capable)

\* get_id: 32 characters sampled at random; no decision depends on the value
get_id == "random id"

\* make_iqr's loop without the try: the first exception leaves the loop
RECURSIVE make_iqr_buttons_uncaught(_, _, _, _)
make_iqr_buttons_uncaught(i, item, e, acc) ==
    IF i > Len(MUSIC_SERVICES) THEN acc
    ELSE Bind(object_to_link(MUSIC_SERVICES[i], item, e), LAMBDA r :
            IF r.raised # NoExc THEN Raise(r.raised, acc.calls \o r.calls)
            ELSE make_iqr_buttons_uncaught(i + 1, item, e,
                    Ret(Append(acc.ret,
                               <<[text |-> service_name(MUSIC_SERVICES[i]),
                                  url |-> r.ret]>>),
                        acc.calls \o r.calls)))

\* The loop of make_iqr: a button, then a new row, for every service whose
\* object_to_link returns; an Exception drops that service's button only.
RECURSIVE make_iqr_buttons(_, _, _, _)
make_iqr_buttons(i, item, e, acc) ==
    IF i > Len(MUSIC_SERVICES) THEN acc
    ELSE Bind(object_to_link(MUSIC_SERVICES[i], item, e), LAMBDA r :
            IF r.raised # NoExc
            THEN make_iqr_buttons(i + 1, item, e,
                    [acc EXCEPT !.calls = acc.calls \o r.calls])
            ELSE make_iqr_buttons(i + 1, item, e,
                    Ret(Append(acc.ret,
                               <<[text |-> service_name(MUSIC_SERVICES[i]),
                                  url |-> r.ret]>>),
                        acc.calls \o r.calls)))

\* make_iqr that gives no result for an item without any button
make_iqr_needs_button(item, e) ==
    Bind(make_iqr_buttons(1, item, e, Ret(<<>>, <<>>)), LAMBDA builder :
        IF builder.ret = <<>> THEN Ret(None, builder.calls)
        ELSE IF item.cover_art # None
        THEN Ret([tag |-> "InlineQueryResultPhoto", id |-> get_id,
                  photo_url |-> item.cover_art.url,
                  thumb_url |-> item.cover_art.url,
                  photo_width |-> item.cover_art.width,
                  photo_height |-> item.cover_art.height,
                  title |-> Str(item), caption |-> Str(item),
                  reply_markup |-> builder.ret], builder.calls)
        ELSE Ret([tag |-> "InlineQueryResultArticle", id |-> get_id,
                  title |-> Str(item), message_text |-> Str(item),
                  reply_markup |-> builder.ret], builder.calls))

\* make_iqr that always takes the fallback for no art
make_iqr_text_only(item, e) ==
    Bind(make_iqr_buttons(1, item, e, Ret(<<>>, <<>>)), LAMBDA builder :
        Ret([tag |-> "InlineQueryResultArticle", id |-> get_id,
             title |-> Str(item), message_text |-> Str(item),
             reply_markup |-> builder.ret], builder.calls))

make_iqr(item, e) ==
    Bind(make_iqr_buttons(1, item, e, Ret(<<>>, <<>>)), LAMBDA builder :
        IF builder.raised # NoExc THEN Raise(builder.raised, builder.calls)
        ELSE IF item.cover_art # None
        THEN Ret([tag |-> "InlineQueryResultPhoto", id |-> get_id,
                  photo_url |-> item.cover_art.url,
                  thumb_url |-> item.cover_art.url,
                  photo_width |-> item.cover_art.width,
                  photo_height |-> item.cover_art.height,
                  title |-> Str(item), caption |-> Str(item),
                  reply_markup |-> builder.ret], builder.calls)
        ELSE Ret([tag |-> "InlineQueryResultArticle", id |-> get_id,
                  title |-> Str(item), message_text |-> Str(item),
                  reply_markup |-> builder.ret], builder.calls))

\* handle_link without the try: the extractor's exception leaves handle_link
handle_link_with_uncaught(service, link, e, log) ==
    Bind(link_to_object(service, link, e), LAMBDA item :
        IF item.raised # NoExc THEN Raise(item.raised, log \o item.calls)
        ELSE Bind(make_iqr(item.ret, e), LAMBDA iqr :
                [iqr EXCEPT !.calls = log \o item.calls \o iqr.calls]))

\* the body of the try in handle_link, for the service that can handle the link
handle_link_with(service, link, e, log) ==
    Bind(link_to_object(service, link, e), LAMBDA item :
        IF item.raised # NoExc THEN Ret(None, log \o item.calls)
        ELSE Bind(make_iqr(item.ret, e), LAMBDA iqr :
                [iqr EXCEPT !.calls = log \o item.calls \o iqr.calls]))

\* handle_link whose for/else falls back on the last service
RECURSIVE handle_link_from_fallback(_, _, _, _)
handle_link_from_fallback(i, link, e, log) ==
    IF i > Len(MUSIC_SERVICES)
    THEN handle_link_with(MUSIC_SERVICES[Len(MUSIC_SERVICES)], link, e, log)
    ELSE Bind(can_handle_link(MUSIC_SERVICES[i], link), LAMBDA can :
            IF can.raised # NoExc THEN Raise(can.raised, log \o can.calls)
            ELSE IF can.ret
            THEN handle_link_with(MUSIC_SERVICES[i], link, e, log \o can.calls)
            ELSE handle_link_from_fallback(i + 1, link, e, log \o can.calls))

RECURSIVE handle_link_from(_, _, _, _)
handle_link_from(i, link, e, log) ==
    IF i > Len(MUSIC_SERVICES) THEN Ret(None, log)
    ELSE Bind(can_handle_link(MUSIC_SERVICES[i], link), LAMBDA can :
            IF can.raised # NoExc THEN Raise(can.raised, log \o can.calls)
            ELSE IF can.ret
            THEN handle_link_with(MUSIC_SERVICES[i], link, e, log \o can.calls)
            ELSE handle_link_from(i + 1, link, e, log \o can.calls))

handle_link(link, e) ==
    handle_link_from(1, link, e, <<<<"handler", "handle_link">>>>)

\* the list comprehension of handle_search
RECURSIVE make_iqr_each(_, _, _, _)
make_iqr_each(i, items, e, acc) ==
    IF i > Len(items) THEN acc
    ELSE Bind(make_iqr(items[i], e), LAMBDA iqr :
            IF iqr.raised # NoExc THEN Raise(iqr.raised, acc.calls \o iqr.calls)
            ELSE make_iqr_each(i + 1, items, e,
                    Ret(Append(acc.ret, iqr.ret), acc.calls \o iqr.calls)))

handle_search(query, e, search_service) ==
    IF search_service = NoService
    THEN Ret(<<>>, <<<<"handler", "handle_search">>>>)
    ELSE Bind(search(search_service, query, e), LAMBDA found :
            IF found.raised # NoExc
            THEN Raise(found.raised, <<<<"handler", "handle_search">>>> \o found.calls)
            ELSE make_iqr_each(1, found.ret, e,
                    Ret(<<>>, <<<<"handler", "handle_search">>>> \o found.calls)))

\* json.dumps of the list of result.to_dict()
dumps(results) == [json |-> results]

answerInlineQuery(inline_query, results) ==
    [method |-> "answerInlineQuery", inline_query_id |-> inline_query.id,
     results |-> results]

\* the else branch of inline_query_handler: the results of the search
inline_query_search(inline_query, e, search_service, link) ==
    Bind(handle_search(inline_query.query, e, search_service), LAMBDA found :
        IF found.raised # NoExc
        THEN Raise(found.raised, link.calls \o found.calls)
        ELSE Ret(answerInlineQuery(inline_query, dumps(found.ret)),
                 link.calls \o found.calls))

\* inline_query_handler that searches even when the link was resolved
inline_query_try_also_search(inline_query, e, search_service) ==
    Bind(handle_link(inline_query.query, e), LAMBDA link :
        IF link.raised # NoExc THEN link
        ELSE IF link.ret # None
        THEN Bind(handle_search(inline_query.query, e, search_service),
                  LAMBDA found :
                    IF found.raised # NoExc
                    THEN Raise(found.raised, link.calls \o found.calls)
                    ELSE Ret(answerInlineQuery(inline_query,
                                               dumps(<<link.ret>> \o found.ret)),
                             link.calls \o found.calls))
        ELSE inline_query_search(inline_query, e, search_service, link))

\* the body of the try of inline_query_handler
inline_query_try(inline_query, e, search_service) ==
    Bind(handle_link(inline_query.query, e), LAMBDA link :
        IF link.raised # NoExc THEN link
        ELSE IF link.ret # None
        THEN Ret(answerInlineQuery(inline_query, dumps(<<link.ret>>)), link.calls)
        ELSE inline_query_search(inline_query, e, search_service, link))

inline_query_handler(inline_query, e, search_service) ==
    Bind(inline_query_try(inline_query, e, search_service), LAMBDA try :
        IF try.raised = "APIException" THEN Ret(None, try.calls) ELSE try)

HelpText == "Hello! I'm designed to be used in inline mode. ..."

sendMessage(message) ==
    [method |-> "sendMessage", chat_id |-> message.chat_id, text |-> HelpText]

RECURSIVE message_handler_from(_, _)
message_handler_from(i, message) ==
    IF i > Len(message.entities) THEN Ret(None, <<>>)
    ELSE LET entity == message.entities[i]
         IN IF entity.type = "bot_command" /\ Lower(entity.command) = "/start"
            THEN Ret(sendMessage(message), <<>>)
            ELSE message_handler_from(i + 1, message)

message_handler(message) == message_handler_from(1, message)

EmptyString == [tag |-> "str", value |-> ""]

\* KINDS.get(update.content_type), then the handler found
handle_update(upd, e, search_service) ==
    CASE upd.content_type = "inline_query" ->
             inline_query_handler(upd.content, e, search_service)
      [] upd.content_type = "message" -> message_handler(upd.content)
      [] OTHER -> Ret(EmptyString, <<>>)

----------------------------------------------------------------------------
\* bot.py: the polling front end.  It sends through the Telegram API instead
\* of returning a response; r.sent is what it sent.

\* the else branch of the bot's inline_query_handler
Bot_inline_query_search(inline_query, e, search_service, link) ==
    Bind(handle_search(inline_query.query, e, search_service), LAMBDA found :
        IF found.raised # NoExc
        THEN Raise(found.raised, link.calls \o found.calls)
        ELSE Ret(found.ret, link.calls \o found.calls))

\* the response list built in the try of the bot's inline_query_handler
Bot_inline_query_response(inline_query, e, search_service) ==
    Bind(handle_link(inline_query.query, e), LAMBDA link :
        IF link.raised # NoExc THEN link
        ELSE IF link.ret # None THEN Ret(<<link.ret>>, link.calls)
        ELSE Bot_inline_query_search(inline_query, e, search_service, link))

Bot_inline_query_handler(inline_query, e, search_service) ==
    Bind(Bot_inline_query_response(inline_query, e, search_service),
         LAMBDA response :
            IF response.raised # NoExc
            THEN [raised |-> IF response.raised = "APIException" THEN NoExc
                             ELSE response.raised,
                  ret |-> None, calls |-> response.calls, sent |-> <<>>]
            ELSE IF e.answer = "ok"
            THEN [raised |-> NoExc, ret |-> None,
                  calls |-> Append(response.calls, <<"inline_query", "answer">>),
                  sent |-> <<answerInlineQuery(inline_query, response.ret)>>]
            ELSE [raised |-> NoExc, ret |-> None,
                  calls |-> Append(response.calls, <<"inline_query", "answer">>),
                  sent |-> <<>>])

\* only the first BotCommand entity is looked at: the loop breaks after it
RECURSIVE Bot_message_handler_from(_, _)
Bot_message_handler_from(i, message) ==
    IF i > Len(message.entities)
    THEN [raised |-> NoExc, ret |-> None, calls |-> <<>>, sent |-> <<>>]
    ELSE LET entity == message.entities[i]
         IN IF entity.type = "bot_command"
            THEN [raised |-> NoExc, ret |-> None, calls |-> <<>>,
                  sent |-> IF Lower(entity.command) = "/start"
                           THEN <<sendMessage(message)>> ELSE <<>>]
            ELSE Bot_message_handler_from(i + 1, message)

Bot_message_handler(message) == Bot_message_handler_from(1, message)

----------------------------------------------------------------------------
\* The inputs: the texts of inline queries, messages, other updates

Url(netloc, path, params, track) ==
    [malformed |-> FALSE, netloc |-> netloc, path |-> path, params |-> params,
     track |-> track]

Queries ==
    { Url("itunes.apple.com", "/us/album/x/1", {"i"}, FALSE),
      Url("iTunes.Apple.com", "/us/album/x/1", {}, FALSE),
      Url("open.spotify.com", "/track/abc", {}, TRUE),
      Url("open.spotify.com", "/album/xyz", {}, FALSE),
      Url("www.youtube.com", "/watch", {"v"}, FALSE),
      Url("youtube.com", "/playlist", {"list"}, FALSE),
      Url("m.youtube.com", "/channel/c", {}, FALSE),
      Url("YOUTU.BE", "/abc", {}, FALSE),
      Url("music.apple.com", "/us/album/x/1", {"i"}, FALSE),
      Url("", "song x artist y", {}, FALSE),
      [malformed |-> TRUE, netloc |-> "", path |-> "", params |-> {},
       track |-> FALSE] }

QueryIds == {"q1", "q2"}

Entities ==
    { [type |-> "bot_command", command |-> "/start"],
      [type |-> "bot_command", command |-> "/START"],
      [type |-> "bot_command", command |-> "/help"],
      [type |-> "mention", command |-> ""] }

ChatIds == {"chat1", "chat2"}

Messages ==
    { [chat_id |-> c, entities |-> es] :
        c \in ChatIds, es \in UNION { [1..n -> Entities] : n \in 0..MaxEntities } }

OtherKinds == {"edited_message", "channel_post", "callback_query"}

\* What the services answer.  An answer is drawn only for a call that is
\* made; Unasked stands for the answer to a call that is never made.
Unasked == "unasked"

Answers == {"hit", "zero", "error"}

NoAnswers ==
    [extract |-> Unasked, cover |-> FALSE,
     lookup |-> [AppleMusic |-> Unasked, YouTube |-> Unasked, Spotify |-> Unasked],
     naive |-> Unasked, search |-> [resp |-> Unasked, hits |-> <<>>],
     answer |-> Unasked]

Made(log, names) == \E i \in DOMAIN log : log[i][2] \in names

SearchAnswers ==
    { [resp |-> "error", hits |-> <<>>] } \cup
    { [resp |-> "ok", hits |-> h] :
        h \in UNION { [1..n -> {"Song", "Album"}] : n \in 0..MaxHits } }

LookupAnswers == [AppleMusic : Answers, YouTube : Answers, Spotify : Answers]

\* Every way the services can answer the calls that Run makes
Environments(Run(_)) ==
    LET S1 == { [NoAnswers EXCEPT !.extract = x] :
                  x \in IF Made(Run(NoAnswers).calls,
                                {"GET page", "GET playlists", "track", "album"})
                        THEN {"ok", "missing", "error"} ELSE {Unasked} }
        S2 == UNION { { [e EXCEPT !.search = x] :
                          x \in IF Made(Run(e).calls, {"search"})
                                THEN SearchAnswers ELSE {e.search} } : e \in S1 }
        S3 == UNION { IF Made(Run(e).calls, {"object_to_link"})
                      THEN { [e EXCEPT !.lookup = x, !.cover = c] :
                               x \in LookupAnswers, c \in BOOLEAN }
                      ELSE {e} : e \in S2 }
        S4 == UNION { { [e EXCEPT !.naive = x] :
                          x \in IF Made(Run(e).calls, {"_naive_query"})
                                THEN Answers ELSE {Unasked} } : e \in S3 }
    IN UNION { { [e EXCEPT !.answer = x] :
                   x \in IF Made(Run(e).calls, {"answer"})
                         THEN {"ok", "APIException"} ELSE {Unasked} } : e \in S4 }

----------------------------------------------------------------------------
\* The state machine

\* The sets of adapter classes that may define search.  converter.py defines
\* it on none of them: the first configuration is the one of the source.
SearchConfigurations ==
    { {}, {"AppleMusic"}, {"Spotify"}, {"YouTube", "Spotify"} }

NoUpdate == [content_type |-> "none"]
NoOutcome == [raised |-> NoExc, ret |-> None]

Init ==
    /\ hasSearch \in SearchConfigurations
    /\ SEARCH_SERVICE = first_search_service(1, hasSearch)
    /\ pc = "idle"
    /\ entry = "none"
    /\ update = NoUpdate
    /\ env = NoAnswers
    /\ outcome = NoOutcome
    /\ sent = <<>>
    /\ calls = <<>>

\* app.py handle(): the webhook hands one update to handle_update
Handled(upd, e, r) ==
    /\ pc' = "done"
    /\ entry' = "webhook"
    /\ update' = upd
    /\ env' = e
    /\ outcome' = [raised |-> r.raised, ret |-> r.ret]
    /\ sent' = <<>>
    /\ calls' = r.calls
    /\ UNCHANGED <<hasSearch, SEARCH_SERVICE>>

handle_inline_query ==
    /\ pc = "idle"
    /\ \E id \in QueryIds, q \in Queries :
         LET upd == [content_type |-> "inline_query",
                     content |-> [id |-> id, query |-> q]]
             Run(e) == handle_update(upd, e, SEARCH_SERVICE)
         IN \E e \in Environments(Run) : Handled(upd, e, Run(e))

handle_message ==
    /\ pc = "idle"
    /\ \E m \in Messages :
         LET upd == [content_type |-> "message", content |-> m]
         IN Handled(upd, NoAnswers, handle_update(upd, NoAnswers, SEARCH_SERVICE))

handle_other ==
    /\ pc = "idle"
    /\ \E k \in OtherKinds :
         LET upd == [content_type |-> k, content |-> None]
         IN Handled(upd, NoAnswers, handle_update(upd, NoAnswers, SEARCH_SERVICE))

\* bot.py: the polling loop hands an update to the bot's handler
Polled(upd, e, r) ==
    /\ pc' = "done"
    /\ entry' = "polling"
    /\ update' = upd
    /\ env' = e
    /\ outcome' = [raised |-> r.raised, ret |-> r.ret]
    /\ sent' = r.sent
    /\ calls' = r.calls
    /\ UNCHANGED <<hasSearch, SEARCH_SERVICE>>

Bot_inline_query ==
    /\ pc = "idle"
    /\ \E id \in QueryIds, q \in Queries :
         LET upd == [content_type |-> "inline_query",
                     content |-> [id |-> id, query |-> q]]
             Run(e) == Bot_inline_query_handler(upd.content, e, SEARCH_SERVICE)
         IN \E e \in Environments(Run) : Polled(upd, e, Run(e))

Bot_message ==
    /\ pc = "idle"
    /\ \E m \in Messages :
         Polled([content_type |-> "message", content |-> m], NoAnswers,
                Bot_message_handler(m))

\* the request is over; nothing of it is kept
Finish ==
    /\ pc = "done"
    /\ pc' = "idle"
    /\ entry' = "none"
    /\ update' = NoUpdate
    /\ env' = NoAnswers
    /\ outcome' = NoOutcome
    /\ sent' = <<>>
    /\ calls' = <<>>
    /\ UNCHANGED <<hasSearch, SEARCH_SERVICE>>

Next ==
    \/ handle_inline_query
    \/ handle_message
    \/ handle_other
    \/ Bot_inline_query
    \/ Bot_message
    \/ Finish

Spec == Init /\ [][Next]_vars

----------------------------------------------------------------------------
\* What a handled inline query shows

IsInline == pc = "done" /\ update.content_type = "inline_query"

\* an answerInlineQuery reached Telegram (returned by the webhook, or sent)
Answered ==
    IF entry = "webhook" THEN outcome.raised = NoExc /\ outcome.ret # None
    ELSE sent # <<>>

\* the results of that answer
Results == IF entry = "webhook" THEN outcome.ret.results.json ELSE sent[1].results

SearchMark == <<"handler", "handle_search">>

\* the calls made by handle_link: those before handle_search is entered
LinkCalls ==
    SelectSeq([i \in DOMAIN calls |->
                  IF \E j \in 1..i : calls[j] = SearchMark THEN <<"", "">>
                  ELSE calls[i]],
              LAMBDA c : c # <<"", "">>)

Searched == \E i \in DOMAIN calls : calls[i] = SearchMark

\* the reciprocal lookup of a service succeeded, by what the service answered
LookupSucceeds(cls) ==
    \/ env.lookup[cls] = "hit"
    \/ cls = "Spotify" /\ env.lookup[cls] = "zero" /\ env.naive = "hit"

ButtonLabels(result) ==
    [i \in DOMAIN result.reply_markup |-> result.reply_markup[i][1].text]

\* the labels, in the order Apple Music, YouTube, Spotify, of the services
\* whose lookup succeeded
ExpectedLabels ==
    (IF LookupSucceeds("AppleMusic") THEN <<"Apple Music">> ELSE <<>>)
    \o (IF LookupSucceeds("YouTube") THEN <<"YouTube">> ELSE <<>>)
    \o (IF LookupSucceeds("Spotify") THEN <<"Spotify">> ELSE <<>>)

----------------------------------------------------------------------------
\* C1: in make_iqr an exception raised by one adapter's reciprocal lookup
\* removes that adapter's button only: every result built carries one button,
\* alone in its row, for each adapter whose lookup succeeded, in the order
\* Apple Music, YouTube, Spotify, and no exception of a lookup leaves
\* make_iqr (the handler that called it ends without an exception).
C1_FailureIsolation ==
    (IsInline /\ Made(calls, {"object_to_link"})) =>
        /\ outcome.raised = NoExc
        /\ Answered =>
             \A i \in DOMAIN Results :
                /\ ButtonLabels(Results[i]) = ExpectedLabels
                /\ \A j \in DOMAIN Results[i].reply_markup :
                      Len(Results[i].reply_markup[j]) = 1

\* the lookup of YouTube raised, those of Apple Music and Spotify returned
C1_Witness ==
    /\ IsInline /\ entry = "webhook" /\ Answered
    /\ env.lookup.AppleMusic = "hit"
    /\ env.lookup.YouTube = "error"
    /\ env.lookup.Spotify = "hit"
    /\ Len(Results) = 1
    /\ ButtonLabels(Results[1]) = <<"Apple Music", "Spotify">>

----------------------------------------------------------------------------
\* The text of the inline query, and the adapters that recognize it

Query == update.content.query

Recognizers ==
    IF Query.malformed THEN {}
    ELSE { i \in DOMAIN MUSIC_SERVICES : can_handle_link(MUSIC_SERVICES[i], Query).ret }

\* the first adapter, in the configured order, that recognizes the link
Source == MUSIC_SERVICES[CHOOSE i \in Recognizers : \A j \in Recognizers : i <= j]

\* C2: for every link some adapter recognizes, whose service answers with
\* well-formed metadata, handle_link returns a result whose title is
\* "<artist> <em dash> <title>" for a song and "<title> by <artist>" for an
\* album.  (Song.__str__ joins the fields with other characters.)
EmDashSeparator == " <U+2014> "

C2_DisplayString ==
    (IsInline /\ Recognizers # {} /\ env.extract = "ok") =>
        /\ outcome.raised = NoExc
        /\ ~Searched
        /\ Answered =>
             /\ Len(Results) = 1
             /\ Len(Results[1].title) = 3
             /\ Results[1].title[2] =
                   IF link_is_song(Source, Query) THEN EmDashSeparator ELSE " by "

----------------------------------------------------------------------------
\* C3: for a link no adapter recognizes, handle_link asks each adapter
\* can_handle_link and nothing else (no extraction, no reciprocal lookup),
\* and returns None: the handler goes on to handle_search.
C3_Unrecognized ==
    (IsInline /\ ~Query.malformed /\ Recognizers = {}) =>
        /\ LinkCalls = << <<"handler", "handle_link">>,
                          <<"AppleMusic", "can_handle_link">>,
                          <<"YouTube", "can_handle_link">>,
                          <<"Spotify", "can_handle_link">> >>
        /\ Searched

C3_Witness ==
    /\ IsInline /\ Searched
    /\ Query.netloc = "music.apple.com"
    /\ Len(LinkCalls) = 4

----------------------------------------------------------------------------
\* C4: an inline query whose text is not resolved as a link and yields no
\* search hit is answered by the webhook with answerInlineQuery, the query's
\* id and an empty result list: never an error, never no response.
C4_EmptyAnswer ==
    ( /\ IsInline /\ entry = "webhook"
      /\ ~Made(calls, {"object_to_link"})
      /\ env.search.resp # "error" /\ env.search.hits = <<>> ) =>
        /\ outcome.raised = NoExc
        /\ outcome.ret = answerInlineQuery(update.content, dumps(<<>>))

----------------------------------------------------------------------------
\* C5: inline_query_handler attempts link resolution first; when it yields
\* a result the response is exactly that one result and search is not
\* invoked; search is invoked only when resolution yields None, and then the
\* response is exactly the results built from the search hits, in order.
Resolution == handle_link(Query, env)

BuiltFromHits ==
    [i \in DOMAIN env.search.hits |->
        make_iqr(ItemOfKind(env.search.hits[i], env), env).ret]

C5_ResolveBeforeSearch ==
    IsInline =>
        /\ calls[1] = <<"handler", "handle_link">>
        /\ Cardinality({ i \in DOMAIN calls : calls[i] = SearchMark }) <= 1
        /\ (Resolution.raised = NoExc /\ Resolution.ret # None) =>
              /\ ~Searched /\ ~Made(calls, {"search"})
              /\ Answered => Results = <<Resolution.ret>>
        /\ Searched =>
              /\ Resolution.raised = NoExc /\ Resolution.ret = None
              /\ SubSeq(calls, 1, Len(Resolution.calls)) = Resolution.calls
              /\ calls[Len(Resolution.calls) + 1] = SearchMark
              /\ Answered => Results = BuiltFromHits

\* resolution failed, the search found an item, the answer is that item
C5_Witness ==
    /\ IsInline /\ Searched /\ Answered
    /\ env.extract = "error"
    /\ Len(env.search.hits) = 1
    /\ Len(Results) = 1
    /\ Results = BuiltFromHits

----------------------------------------------------------------------------
\* C6: in Spotify's song_to_link and album_to_link the relaxed query is
\* issued only after the exact query returned zero results, at most once per
\* call, never after the exact query failed; when the relaxed query finds
\* nothing either the call fails (ValueError: no Spotify button).
ExactQuery == <<"Spotify", "_format_query">>
RelaxedQuery == <<"Spotify", "_naive_query">>

CallAt(i) == IF i \in DOMAIN calls THEN calls[i] ELSE <<"", "">>

C6_RelaxedQueryOnce ==
    IsInline =>
        /\ \A i \in DOMAIN calls :
              calls[i] = <<"Spotify", "object_to_link">> =>
                 /\ CallAt(i + 1) = ExactQuery
                 /\ (CallAt(i + 2) = RelaxedQuery) <=> (env.lookup.Spotify = "zero")
                 /\ CallAt(i + 2) # ExactQuery
                 /\ CallAt(i + 3) \notin {ExactQuery, RelaxedQuery}
        /\ \A i \in DOMAIN calls :
              calls[i] = RelaxedQuery => CallAt(i - 1) = ExactQuery
        /\ (env.lookup.Spotify = "zero" /\ env.naive = "zero") =>
              /\ Spotify_song_to_link(ItemOfKind("Song", env), env).raised
                    = "ValueError"
              /\ Spotify_album_to_link(ItemOfKind("Album", env), env).raised
                    = "ValueError"
              /\ Answered =>
                    \A i \in DOMAIN Results :
                       \A j \in DOMAIN Results[i].reply_markup :
                          Results[i].reply_markup[j][1].text # "Spotify"

\* the exact query found nothing, the relaxed one was issued and found nothing
C6_Witness ==
    /\ IsInline /\ Answered
    /\ env.lookup.Spotify = "zero" /\ env.naive = "zero"
    /\ \E i \in DOMAIN calls : calls[i] = ExactQuery /\ CallAt(i + 1) = RelaxedQuery
    /\ Len(Results) = 1
    /\ ButtonLabels(Results[1]) = ExpectedLabels

----------------------------------------------------------------------------
\* C7: the search service is the first adapter, in the order Apple Music,
\* YouTube, Spotify, that has a search capability, None when there is none,
\* and it is never selected again; when it is None handle_search calls no
\* adapter, raises nothing and returns an empty sequence.
ExpectedSearchService ==
    IF "AppleMusic" \in hasSearch THEN "AppleMusic"
    ELSE IF "YouTube" \in hasSearch THEN "YouTube"
    ELSE IF "Spotify" \in hasSearch THEN "Spotify"
    ELSE NoService

C7_NoSearchService ==
    /\ SEARCH_SERVICE = ExpectedSearchService
    /\ (IsInline /\ Searched /\ SEARCH_SERVICE = NoService) =>
          /\ ~Made(calls, {"search", "object_to_link"})
          /\ outcome.raised = NoExc
          /\ entry = "webhook" => Answered
          /\ Answered => Results = <<>>

C7_SearchService ==
    /\ []C7_NoSearchService
    /\ [][SEARCH_SERVICE' = SEARCH_SERVICE]_vars

C7_Witness ==
    /\ IsInline /\ Searched /\ Answered
    /\ SEARCH_SERVICE = NoService
    /\ env.extract = "error"
    /\ Results = <<>>

----------------------------------------------------------------------------
\* C8: a message is answered with the help text, addressed to the chat of
\* the message, if and only if one of its command entities is the start
\* command in any letter case; otherwise nothing is answered; an update that
\* is neither an inline query nor a message calls no handler, answers nothing.
HasStartCommand(message) ==
    \E i \in DOMAIN message.entities :
       /\ message.entities[i].type = "bot_command"
       /\ Lower(message.entities[i].command) = "/start"

C8_HelpOnStart ==
    pc = "done" =>
        /\ update.content_type = "message" =>
              IF HasStartCommand(update.content)
              THEN IF entry = "webhook"
                   THEN outcome.ret = sendMessage(update.content)
                   ELSE sent = <<sendMessage(update.content)>>
              ELSE outcome.ret = None /\ sent = <<>>
        /\ update.content_type \notin {"inline_query", "message"} =>
              outcome.ret = EmptyString /\ sent = <<>> /\ calls = <<>>

----------------------------------------------------------------------------
\* C9: when the source adapter (the first, in the configured order, that
\* recognizes the link) fails to extract the item, handle_link returns None
\* as for an unsupported link: no later adapter is asked, no reciprocal lookup
\* is made, no exception leaves handle_link, and the handler goes on to search.
C9_ExtractionFailure ==
    (IsInline /\ Made(calls, {"link_to_object"}) /\ env.extract # "ok") =>
        LET k == CHOOSE i \in DOMAIN LinkCalls : LinkCalls[i][2] = "link_to_object"
        IN /\ Searched
           /\ LinkCalls[k][1] = Source
           /\ \A i \in 1..(k - 1) :
                 LinkCalls[i][2] \in {"handle_link", "can_handle_link"}
           /\ \A i \in (k + 1)..Len(LinkCalls) :
                 LinkCalls[i][2] \notin
                    {"can_handle_link", "link_to_object", "object_to_link"}
           /\ Answered => Results = BuiltFromHits

C9_Witness ==
    /\ IsInline /\ Searched /\ Answered
    /\ env.extract = "missing"
    /\ Source = "YouTube"
    /\ Results = BuiltFromHits

----------------------------------------------------------------------------
----------------------------------------------------------------------------
\* C11: make_iqr returns a result for every item it is given and chooses the
\* presentation by the cover art alone: a photo result with the art's url,
\* width and height and the display string as caption when the item has
\* cover art, a text result whose title and body are the display string when
\* it has none; either way the buttons are those collected from the adapters.

\* the items make_iqr was given: the extracted one, or the search hits
ItemsPresented ==
    IF Searched
    THEN [i \in DOMAIN env.search.hits |-> ItemOfKind(env.search.hits[i], env)]
    ELSE <<link_to_object(Source, Query, env).ret>>

PresentedAs(result, item) ==
    /\ result.title = Str(item)
    /\ ButtonLabels(result) = ExpectedLabels
    /\ IF item.cover_art # None
       THEN /\ result.tag = "InlineQueryResultPhoto"
            /\ result.photo_url = item.cover_art.url
            /\ result.thumb_url = item.cover_art.url
            /\ result.photo_width = item.cover_art.width
            /\ result.photo_height = item.cover_art.height
            /\ result.caption = Str(item)
       ELSE /\ result.tag = "InlineQueryResultArticle"
            /\ result.message_text = Str(item)

----------------------------------------------------------------------------
\* C12: for every link at most one of the three adapters recognizes it (the
\* host sets are disjoint, the host is compared in lower case), so the source
\* adapter handle_link chooses is the same under every order of the adapters.

\* the orders in which the three adapters could be listed
Orders == Permutations(DOMAIN MUSIC_SERVICES)

\* the first adapter that recognizes the link when they are listed in order p
SourceUnder(p) ==
    MUSIC_SERVICES[p[CHOOSE k \in DOMAIN p :
                        /\ p[k] \in Recognizers
                        /\ \A j \in 1..(k - 1) : p[j] \notin Recognizers]]

C12_MutuallyExclusive ==
    IsInline =>
        /\ Cardinality(Recognizers) <= 1
        /\ Recognizers # {} =>
              /\ \A p \in Orders : SourceUnder(p) = Source
              /\ \A c \in { calls[i] : i \in DOMAIN calls } :
                    c[2] = "link_to_object" => c[1] = Source

\* a YouTube link with its host in capitals, recognized by YouTube alone
C12_Witness ==
    /\ IsInline
    /\ Query.netloc = "YOUTU.BE"
    /\ Recognizers = {2}
    /\ MUSIC_SERVICES[2] = "YouTube"
    /\ \E i \in DOMAIN LinkCalls : LinkCalls[i] = <<"YouTube", "link_to_object">>

====
